---- MODULE Spec2Model ----
(***************************************************************************)
(* A model of the resume updater (src/main.py).                            *)
(*                                                                         *)
(* A string is a sequence of symbols.  A symbol is a one-character string  *)
(* ("a", " ", "-", "\n") or a whole phrase standing for itself (the header *)
(* phrases "DATA SCIENTIST", "CORE COMPETENCIES", "WORK EXPERIENCE", the   *)
(* section labels of the prompt, the words of the documented examples).    *)
(* A phrase symbol is never whitespace and never a decoration character,   *)
(* so splitting, trimming and joining treat it as a run of letters.  The   *)
(* bullet character U+2022 is written "u2022".  Lengths and slices count   *)
(* symbols, except where the source compares a length with a number        *)
(* (str_len).                                                              *)
(*                                                                         *)
(* A Document is a sequence of paragraphs; a paragraph is a record of its  *)
(* runs (each a text and a bold flag) and its style.  Paragraph indices    *)
(* are 0-based as in the source: doc.paragraphs[i] is doc[i + 1].          *)
(***************************************************************************)
EXTENDS Integers, Sequences, FiniteSets, TLC

VARIABLES
    pc,               \* position of the running operation
    doc,              \* the Document being edited
    doc0,             \* the Document as it was read (read_docx_text)
    section_map,      \* result of parse_docx_sections
    indices,          \* argument: list of paragraph indices
    word_limit,       \* argument: <<>> for None, <<L>> for a limit L
    text,             \* argument: a text (replacement text, section text)
    out,              \* the value returned by the operation under study
    new_resume_text,  \* main: the text returned by call_gemini
    new_sections,     \* main: intro_new, skills_new, work_new
    saved,            \* main: files written (updated docx, pdf)
    calls,            \* main: number of requests posted to the service
    call_failed       \* main: call_gemini raised

vars == <<pc, doc, doc0, section_map, indices, word_limit, text, out,
          new_resume_text, new_sections, saved, calls, call_failed>>

main_vars == <<new_resume_text, new_sections, saved, calls, call_failed>>

(***************************************************************************)
(* Strings                                                                 *)
(***************************************************************************)

\* Characters str.strip() / str.split() treat as whitespace.
Whitespace == {" ", "\t", "\n", "\r"}

\* Lower-case symbols and their upper-case images (str.upper / str.isupper).
LowerSyms == {"x", "a", "b", "data scientist", "core competencies", "work experience"}

UpperSyms == {"X", "A", "B", "E", "D", "U", "C",
              "DATA SCIENTIST", "CORE COMPETENCIES", "WORK EXPERIENCE"}

upper_sym(c) ==
    CASE c = "x" -> "X"
      [] c = "a" -> "A"
      [] c = "b" -> "B"
      [] c = "data scientist" -> "DATA SCIENTIST"
      [] c = "core competencies" -> "CORE COMPETENCIES"
      [] c = "work experience" -> "WORK EXPERIENCE"
      [] OTHER -> c

\* Number of characters a symbol stands for (len).
sym_len(c) ==
    CASE c \in {"DATA SCIENTIST", "data scientist"} -> 14
      [] c \in {"CORE COMPETENCIES", "core competencies"} -> 17
      [] c \in {"WORK EXPERIENCE", "work experience"} -> 15
      [] OTHER -> 1

RECURSIVE str_len(_)
str_len(s) == IF s = <<>> THEN 0 ELSE sym_len(Head(s)) + str_len(Tail(s))

upper(s) == [i \in 1..Len(s) |-> upper_sym(s[i])]

\* str.isupper(): no lower-case cased character and at least one cased one.
isupper(s) ==
    /\ \A i \in 1..Len(s) : s[i] \notin LowerSyms
    /\ \E i \in 1..Len(s) : s[i] \in UpperSyms

RECURSIVE lstrip(_, _)
lstrip(s, cs) ==
    IF s # <<>> /\ Head(s) \in cs THEN lstrip(Tail(s), cs) ELSE s

RECURSIVE rstrip(_, _)
rstrip(s, cs) ==
    IF s # <<>> /\ s[Len(s)] \in cs THEN rstrip(SubSeq(s, 1, Len(s) - 1), cs) ELSE s

\* s.strip(cs); s.strip() is strip(s, Whitespace).
strip(s, cs) == rstrip(lstrip(s, cs), cs)

\* Index of the first symbol of s that is in cs, Len(s) + 1 when there is none.
first_in(s, cs) ==
    IF \E i \in 1..Len(s) : s[i] \in cs
    THEN CHOOSE i \in 1..Len(s) : s[i] \in cs /\ \A j \in 1..(i - 1) : s[j] \notin cs
    ELSE Len(s) + 1

\* The pieces of s between the symbols in seps: always at least one piece.
RECURSIVE split_any(_, _)
split_any(s, seps) ==
    LET i == first_in(s, seps) IN
    IF i > Len(s) THEN <<s>>
    ELSE <<SubSeq(s, 1, i - 1)>> \o split_any(SubSeq(s, i + 1, Len(s)), seps)

\* s.split(sep) for a one-character separator.
split(s, sep) == split_any(s, {sep})

\* s.split(): the maximal runs of non-whitespace symbols.
RECURSIVE split_words(_)
split_words(s) ==
    LET t == lstrip(s, Whitespace) IN
    IF t = <<>> THEN <<>>
    ELSE LET k == first_in(t, Whitespace) IN
         <<SubSeq(t, 1, k - 1)>> \o split_words(SubSeq(t, k, Len(t)))

\* sep.join(xs) for a list of strings xs.
RECURSIVE join(_, _)
join(sep, xs) ==
    IF xs = <<>> THEN <<>>
    ELSE IF Len(xs) = 1 THEN xs[1]
    ELSE xs[1] \o <<sep>> \o join(sep, Tail(xs))

\* xs[a:b] of a Python list or string (0-based, clipped to the length).
slice(xs, a, b) ==
    LET hi == IF b < Len(xs) THEN b ELSE Len(xs) IN SubSeq(xs, a + 1, hi)

\* list(range(a, b))
range(a, b) == [k \in 1..(IF b > a THEN b - a ELSE 0) |-> a + k - 1]

\* The elements of a list, as a set.
elems(xs) == {xs[k] : k \in 1..Len(xs)}

\* [x for x in xs if x in keep]
RECURSIVE select(_, _)
select(xs, keep) ==
    IF xs = <<>> THEN <<>>
    ELSE (IF Head(xs) \in keep THEN <<Head(xs)>> ELSE <<>>) \o select(Tail(xs), keep)

(***************************************************************************)
(* Documents                                                               *)
(***************************************************************************)

mk_run(t) == [text |-> t, bold |-> FALSE]

\* A paragraph as read from the file: the given runs, default style.
mk_para(ts) == [runs |-> [k \in 1..Len(ts) |-> mk_run(ts[k])], style |-> "Normal"]

\* para.text: the concatenation of the run texts.
RECURSIVE runs_text(_)
runs_text(rs) == IF rs = <<>> THEN <<>> ELSE Head(rs).text \o runs_text(Tail(rs))

para_text(p) == runs_text(p.runs)

\* The sequences over S of length 0..n.
seqs_upto(S, n) == UNION {[1..k -> S] : k \in 0..n}

(***************************************************************************)
(* parse_docx_sections                                                     *)
(***************************************************************************)

intro_header == "DATA SCIENTIST"
skills_header == <<"CORE COMPETENCIES">>
work_header == <<"WORK EXPERIENCE">>

\* `intro_header in text`
has_intro_header(t) == \E i \in 1..Len(t) : t[i] = intro_header

\* The loop of lines 128-135: the last paragraph matching each header.
\* st holds intro_start, skills_start, work_start; None is -1.
RECURSIVE scan_headers(_, _, _)
scan_headers(d, i, st) ==
    IF i >= Len(d) THEN st
    ELSE LET t == upper(strip(para_text(d[i + 1]), Whitespace)) IN
         scan_headers(d, i + 1,
            IF has_intro_header(t) THEN [st EXCEPT !.intro_start = i]
            ELSE IF t = skills_header THEN [st EXCEPT !.skills_start = i]
            ELSE IF t = work_header THEN [st EXCEPT !.work_start = i]
            ELSE st)

\* find_next_header without the length test of line 152.
RECURSIVE find_next_header_any_caps(_, _)
find_next_header_any_caps(d, i) ==
    IF i >= Len(d) THEN Len(d)
    ELSE LET t == strip(para_text(d[i + 1]), Whitespace) IN
         IF isupper(t) THEN i ELSE find_next_header_any_caps(d, i + 1)

\* The loop of lines 149-154: the next all-caps header from paragraph i on.
RECURSIVE find_next_header(_, _)
find_next_header(d, i) ==
    IF i >= Len(d) THEN Len(d)
    ELSE LET t == strip(para_text(d[i + 1]), Whitespace) IN
         IF isupper(t) /\ str_len(t) > 3 THEN i ELSE find_next_header(d, i + 1)

\* Lines 139-142: the single paragraph after the intro header.
intro_section(d, st) ==
    IF st.intro_start # -1 /\ st.intro_start + 1 < Len(d)
    THEN <<st.intro_start + 1>> ELSE <<>>

\* Lines 144-145: the paragraphs between the skills and the work header.
skills_section(st) ==
    IF st.skills_start # -1 /\ st.work_start # -1
    THEN range(st.skills_start + 1, st.work_start) ELSE <<>>

\* Lines 147-155: from the work header to the next all-caps header or the end.
work_section(d, st) ==
    IF st.work_start # -1
    THEN range(st.work_start + 1, find_next_header(d, st.work_start + 1))
    ELSE <<>>

\* Lines 157-158: every paragraph that is in none of the three sections.
other_missing_work(n, intro, skills, work) ==
    select(range(0, n), (0..(n - 1)) \ (elems(intro) \cup elems(skills)))

other_section(n, intro, skills, work) ==
    select(range(0, n), (0..(n - 1)) \ (elems(intro) \cup elems(skills) \cup elems(work)))

parse_docx_sections(d) ==
    LET st == scan_headers(d, 0, [intro_start |-> -1, skills_start |-> -1, work_start |-> -1])
        intro == intro_section(d, st)
        skills == skills_section(st)
        work == work_section(d, st)
    IN [intro |-> intro, skills |-> skills, work_experience |-> work,
        other |-> other_section(Len(d), intro, skills, work)]

\* Paragraph texts the parser tells apart.
ParseTexts ==
    { <<"DATA SCIENTIST">>,
      <<"data scientist", " ", "x">>,
      <<" ", "core competencies">>,
      <<"WORK EXPERIENCE", " ">>,
      <<"WORK EXPERIENCE", "x">>,
      <<"x">>,
      <<"E", "D", "U", "C">>,
      <<"E", "D", "U">> }

MaxParas == 5

\* The documents of at most n single-run paragraphs with these texts.
ParseDocs(n) == {[k \in 1..Len(ts) |-> mk_para(<<ts[k]>>)] : ts \in seqs_upto(ParseTexts, n)}

NoMap == [intro |-> <<>>, skills |-> <<>>, work_experience |-> <<>>, other |-> <<>>]
NoSections == [intro |-> <<>>, skills |-> <<>>, work |-> <<>>]
NoFiles == [docx |-> <<>>, pdf |-> <<>>]

MainIdle ==
    /\ new_resume_text = <<>>
    /\ new_sections = NoSections
    /\ saved = NoFiles
    /\ calls = 0
    /\ call_failed = FALSE

InitParse ==
    /\ pc = "parse"
    /\ doc \in ParseDocs(MaxParas)
    /\ doc0 = doc
    /\ section_map = NoMap
    /\ indices = <<>>
    /\ word_limit = <<>>
    /\ text = <<>>
    /\ out = <<>>
    /\ MainIdle

Parse ==
    /\ pc = "parse"
    /\ section_map' = parse_docx_sections(doc)
    /\ pc' = "parsed"
    /\ UNCHANGED <<doc, doc0, indices, word_limit, text, out>>
    /\ UNCHANGED main_vars

NextParse == Parse

SpecParse == InitParse /\ [][NextParse]_vars

(***************************************************************************)
(* extract_section_text                                                    *)
(***************************************************************************)

\* Line 68: the texts of the paragraphs at the given indices.
section_paras(d, idxs) == [k \in 1..Len(idxs) |-> para_text(d[idxs[k] + 1])]

\* The words of all the paragraphs, in order.
RECURSIVE all_words(_)
all_words(paras) ==
    IF paras = <<>> THEN <<>> ELSE split_words(Head(paras)) \o all_words(Tail(paras))

\* Lines 70-74: a word is appended only while fewer than word_limit are held.
limited_words(paras, L) == slice(all_words(paras), 0, L)

\* Lines 76-85: one output line per paragraph, until one does not fit.
RECURSIVE rebuild_paras(_, _, _, _)
rebuild_paras(paras, words, idx, L) ==
    IF paras = <<>> THEN <<>>
    ELSE LET para_words == split_words(Head(paras)) IN
         IF idx + Len(para_words) > L
         THEN <<join(" ", slice(words, idx, L))>>
         ELSE <<join(" ", slice(words, idx, idx + Len(para_words)))>>
              \o rebuild_paras(Tail(paras), words, idx + Len(para_words), L)

extract_section_text(d, idxs, limit) ==
    LET paras == section_paras(d, idxs) IN
    IF limit # <<>>
    THEN join("\n", rebuild_paras(paras, limited_words(paras, limit[1]), 0, limit[1]))
    ELSE join("\n", paras)

MaxExtractParas == 2
MaxParaLen == 3
MaxLimit == 3

ExtractTexts(n) == seqs_upto({"a", " "}, n)

\* The documented example: "one two three" / "four five six seven", limit 5.
ExampleExtractDoc ==
    << mk_para(<< <<"one", " ", "two", " ", "three">> >>),
       mk_para(<< <<"four", " ", "five", " ", "six", " ", "seven">> >>) >>

ExtractDocs(n, len) ==
    {[k \in 1..Len(ts) |-> mk_para(<<ts[k]>>)] : ts \in seqs_upto(ExtractTexts(len), n)}

InitExtract ==
    /\ pc = "extract"
    /\ \/ doc \in ExtractDocs(MaxExtractParas, MaxParaLen) /\ word_limit \in {<<>>} \cup {<<L>> : L \in 0..MaxLimit}
       \/ doc = ExampleExtractDoc /\ word_limit = <<5>>
    /\ doc0 = doc
    /\ section_map = NoMap
    /\ indices = range(0, Len(doc))
    /\ text = <<>>
    /\ out = <<>>
    /\ MainIdle

Extract ==
    /\ pc = "extract"
    /\ out' = extract_section_text(doc, indices, word_limit)
    /\ pc' = "extracted"
    /\ UNCHANGED <<doc, doc0, section_map, indices, word_limit, text>>
    /\ UNCHANGED main_vars

NextExtract == Extract

SpecExtract == InitExtract /\ [][NextExtract]_vars

(***************************************************************************)
(* Properties of extract_section_text                                      *)
(***************************************************************************)

\* Number of words in the first i paragraphs.
RECURSIVE words_upto(_, _)
words_upto(paras, i) ==
    IF i = 0 THEN 0 ELSE words_upto(paras, i - 1) + Len(split_words(paras[i]))

\* The text the word limit L >= 1 asks for: whole paragraphs up to the one
\* holding the L-th word, that one cut at the L-th word, nothing after it.
LimitedText(paras, L) ==
    LET n == Len(paras)
        line(i) == join(" ", split_words(paras[i]))
    IN IF words_upto(paras, n) < L
       THEN join("\n", [i \in 1..n |-> line(i)])
       ELSE LET k == CHOOSE i \in 1..n :
                        /\ words_upto(paras, i) >= L
                        /\ \A j \in 1..(i - 1) : words_upto(paras, j) < L
                cut == join(" ", SubSeq(split_words(paras[k]), 1, L - words_upto(paras, k - 1)))
            IN join("\n", [i \in 1..k |-> IF i < k THEN line(i) ELSE cut])

\* C3: with a word limit L the result holds the paragraphs one per line, whole
\* up to the paragraph where the L-th word falls, that paragraph cut at the
\* L-th word, and no line for any later paragraph.
C3_TruncatedAtLimit ==
    pc = "extracted" /\ word_limit # <<>> /\ word_limit[1] >= 1 =>
        out = LimitedText(section_paras(doc, indices), word_limit[1])

\* C3, the documented example alone: limit 5 returns "one two three\nfour five".
C3_Example ==
    pc = "extracted" /\ doc = ExampleExtractDoc /\ word_limit = <<5>> =>
        out = <<"one", " ", "two", " ", "three", "\n", "four", " ", "five">>

(***************************************************************************)
(* The document library's paragraph primitives, as the splicers use them   *)
(***************************************************************************)

\* para.clear(): the runs are removed, the paragraph style is kept.
para_clear(p) == [p EXCEPT !.runs = <<>>]

\* para.add_run(t): a new run at the end, no character formatting.
para_add_run(p, t) == [p EXCEPT !.runs = Append(p.runs, mk_run(t))]

\* para.text = t: the content is replaced by a single run holding t.
para_set_text(p, t) == para_add_run(para_clear(p), t)

(***************************************************************************)
(* update_section_text                                                     *)
(***************************************************************************)

\* Lines 100-104: run j receives new_line[start : start + len(run j)].
RECURSIVE fill_runs(_, _, _)
fill_runs(rs, new_line, start) ==
    IF rs = <<>> THEN <<>>
    ELSE LET run_len == Len(Head(rs).text) IN
         <<[Head(rs) EXCEPT !.text = slice(new_line, start, start + run_len)]>>
         \o fill_runs(Tail(rs), new_line, start + run_len)

\* The position `start` after the loop: the total length of the old runs.
RECURSIVE runs_len(_)
runs_len(rs) == IF rs = <<>> THEN 0 ELSE Len(Head(rs).text) + runs_len(Tail(rs))

\* splice_runs with lines 105-106 left out: the overflow is lost.
splice_runs_no_overflow(rs, new_line) == fill_runs(rs, new_line, 0)

\* Lines 99-106: the runs of a paragraph that has runs, after the update.
splice_runs(rs, new_line) ==
    LET filled == fill_runs(rs, new_line, 0)
        start == runs_len(rs)
        last == Len(filled)
    IN IF start < Len(new_line) /\ rs # <<>>
       THEN [filled EXCEPT ![last].text = @ \o slice(new_line, start, Len(new_line))]
       ELSE filled

\* Lines 97-108: one paragraph receives its line.
splice_para(p, new_line) ==
    IF p.runs # <<>> THEN [p EXCEPT !.runs = splice_runs(p.runs, new_line)]
    ELSE para_set_text(p, new_line)

\* section_step, but a paragraph without a line is cleared.
section_step_clearing(d, idx, lines, i) ==
    IF i < Len(lines) THEN [d EXCEPT ![idx + 1] = splice_para(d[idx + 1], lines[i + 1])]
    ELSE [d EXCEPT ![idx + 1] = para_set_text(d[idx + 1], <<>>)]

\* Lines 95-109: the body of the loop for the i-th index.
section_step(d, idx, lines, i) ==
    IF i < Len(lines) THEN [d EXCEPT ![idx + 1] = splice_para(d[idx + 1], lines[i + 1])]
    ELSE d

RECURSIVE section_loop(_, _, _, _)
section_loop(d, idxs, lines, i) ==
    IF i >= Len(idxs) THEN d
    ELSE section_loop(section_step(d, idxs[i + 1], lines, i), idxs, lines, i + 1)

update_section_text(d, idxs, new_text) == section_loop(d, idxs, split(new_text, "\n"), 0)

MaxRuns == 2
MaxUpdateParas == 2
MaxNewText == 3

RunTexts == {<<"a">>, <<"a", "b">>}

UpdateParas(r) == {mk_para(ts) : ts \in seqs_upto(RunTexts, r)}

UpdateDocs(n, r) == seqs_upto(UpdateParas(r), n)

NewTexts(n) == seqs_upto({"c", "\n"}, n)

\* The index lists the parser produces are runs of consecutive indices.
IndexRanges(n) == {range(a, b) : a \in 0..n, b \in 0..n}

InitUpdate ==
    /\ pc = "update"
    /\ doc \in UpdateDocs(MaxUpdateParas, MaxRuns)
    /\ doc0 = doc
    /\ section_map = NoMap
    /\ indices \in IndexRanges(Len(doc))
    /\ word_limit = <<>>
    /\ text \in NewTexts(MaxNewText)
    /\ out = <<>>
    /\ MainIdle

Update ==
    /\ pc = "update"
    /\ doc' = update_section_text(doc, indices, text)
    /\ pc' = "updated"
    /\ UNCHANGED <<doc0, section_map, indices, word_limit, text, out>>
    /\ UNCHANGED main_vars

NextUpdate == Update

SpecUpdate == InitUpdate /\ [][NextUpdate]_vars

(***************************************************************************)
(* Properties of update_section_text                                       *)
(***************************************************************************)

\* Number of lines of a text: one more than its newlines.
LineCount(t) == Cardinality({k \in 1..Len(t) : t[k] = "\n"}) + 1

\* Positions i of the index list that have a line.
Served(idxs, t) == {i \in 0..(Len(idxs) - 1) : i < LineCount(t)}

\* Total length of the texts of runs 1..j.
RECURSIVE LenUpto(_, _)
LenUpto(rs, j) == IF j = 0 THEN 0 ELSE LenUpto(rs, j - 1) + Len(rs[j].text)

\* The text run j of rs must hold once new_line is spread over rs.
ExpectedRunText(rs, new_line, j) ==
    IF j < Len(rs)
    THEN slice(new_line, LenUpto(rs, j - 1), LenUpto(rs, j))
    ELSE slice(new_line, LenUpto(rs, j - 1), Len(new_line))

\* C4: a paragraph with runs keeps its number of runs and their formatting,
\* run j receives the part of the new line of run j's old length (empty when
\* the line is shorter, the overflow going to the last run), and the
\* paragraph's text reads back as exactly the new line.
C4_RunsKeptTextReplaced ==
    pc = "updated" =>
        \A i \in Served(indices, text) :
            LET old == doc0[indices[i + 1] + 1]
                new == doc[indices[i + 1] + 1]
                new_line == split(text, "\n")[i + 1]
            IN old.runs # <<>> =>
                /\ Len(new.runs) = Len(old.runs)
                /\ new.style = old.style
                /\ para_text(new) = new_line
                /\ \A j \in 1..Len(old.runs) :
                      /\ new.runs[j].bold = old.runs[j].bold
                      /\ new.runs[j].text = ExpectedRunText(old.runs, new_line, j)

\* A two-run paragraph received a line longer than its old text: the first
\* run kept its length and the last run took the overflow.
C4_Witness ==
    /\ pc = "updated"
    /\ \E i \in Served(indices, text) :
          LET old == doc0[indices[i + 1] + 1]
              new == doc[indices[i + 1] + 1]
          IN /\ Len(old.runs) = 2
             /\ Len(split(text, "\n")[i + 1]) > Len(para_text(old))
             /\ Len(new.runs[1].text) = Len(old.runs[1].text)
             /\ Len(new.runs[2].text) > Len(old.runs[2].text)

\* C10: only the paragraphs indices[i] with i below the number of lines are
\* changed: section paragraphs beyond the lines keep text and runs, surplus
\* lines add no paragraph, paragraphs outside indices are unchanged.
C10_OnlyServedParagraphsChange ==
    pc = "updated" =>
        /\ Len(doc) = Len(doc0)
        /\ \A j \in 0..(Len(doc0) - 1) :
              j \notin {indices[i + 1] : i \in Served(indices, text)} => doc[j + 1] = doc0[j + 1]

\* More section paragraphs than lines: the first one changed, the one
\* beyond the lines has text and kept it.
C10_Witness ==
    /\ pc = "updated"
    /\ Len(indices) > LineCount(text)
    /\ doc[indices[1] + 1] # doc0[indices[1] + 1]
    /\ para_text(doc[indices[Len(indices)] + 1]) # <<>>
    /\ doc[indices[Len(indices)] + 1] = doc0[indices[Len(indices)] + 1]

(***************************************************************************)
(* process_work_experience                                                 *)
(***************************************************************************)

\* s.startswith('-')
starts_with_dash(s) == s # <<>> /\ Head(s) = "-"

\* Lines 9-12: the pair appended for one (right-trimmed) line.
work_pair(line) ==
    IF starts_with_dash(strip(line, Whitespace))
    THEN [is_bullet |-> TRUE, text |-> strip(lstrip(line, {"-"}), Whitespace)]
    ELSE [is_bullet |-> FALSE, text |-> strip(line, Whitespace)]

process_work_experience(t) ==
    LET lines == [k \in 1..Len(split(t, "\n")) |-> rstrip(split(t, "\n")[k], Whitespace)]
    IN [k \in 1..Len(lines) |-> work_pair(lines[k])]

MaxWorkText == 4

WorkTexts(n) == seqs_upto({"-", " ", "a", "\n"}, n)

\* The documented example: "- Led team\nDid other stuff\n- Shipped v2".
ExampleWorkText ==
    <<"-", " ", "Led", " ", "team", "\n", "Did", " ", "other", " ", "stuff", "\n",
      "-", " ", "Shipped", " ", "v2">>

InitWork ==
    /\ pc = "process_work"
    /\ doc = <<>>
    /\ doc0 = <<>>
    /\ section_map = NoMap
    /\ indices = <<>>
    /\ word_limit = <<>>
    /\ text \in WorkTexts(MaxWorkText) \cup {ExampleWorkText}
    /\ out = <<>>
    /\ MainIdle

ProcessWork ==
    /\ pc = "process_work"
    /\ out' = process_work_experience(text)
    /\ pc' = "processed_work"
    /\ UNCHANGED <<doc, doc0, section_map, indices, word_limit, text>>
    /\ UNCHANGED main_vars

NextWork == ProcessWork

SpecWork == InitWork /\ [][NextWork]_vars

\* C7: the k-th pair belongs to the k-th line; is_bullet holds exactly when
\* the trimmed line starts with '-'; a bullet's text is the trimmed line
\* without its leading dashes (trimmed again), so it does not start with
\* '-'; any other line's text is the trimmed line.
C7_BulletPairs ==
    pc = "processed_work" =>
        LET lines == split(text, "\n") IN
        /\ Len(out) = Len(lines)
        /\ \A k \in 1..Len(lines) :
              LET l == strip(lines[k], Whitespace) IN
              /\ out[k].is_bullet = starts_with_dash(l)
              /\ out[k].is_bullet =>
                    /\ out[k].text = strip(lstrip(l, {"-"}), Whitespace)
                    /\ ~starts_with_dash(out[k].text)
              /\ ~out[k].is_bullet => out[k].text = l

\* C7, the documented example alone.
C7_Example ==
    pc = "processed_work" /\ text = ExampleWorkText =>
        out = << [is_bullet |-> TRUE, text |-> <<"Led", " ", "team">>],
                 [is_bullet |-> FALSE, text |-> <<"Did", " ", "other", " ", "stuff">>],
                 [is_bullet |-> TRUE, text |-> <<"Shipped", " ", "v2">>] >>

(***************************************************************************)
(* process_core_competencies                                               *)
(***************************************************************************)

\* The characters of l.strip('-\u2022* \t'); "u2022" is the bullet character.
Decoration == {"-", "u2022", "*", " ", "\t"}

\* keep_entry with the lower bound of line 44 left out.
keep_entry_no_lower_bound(words) == Len(words) <= 2

\* Line 44: only entries of one or two words are kept.
keep_entry(words) == 1 <= Len(words) /\ Len(words) <= 2

\* Line 39: the non-blank lines, each stripped of decoration at both ends.
RECURSIVE stripped_lines(_)
stripped_lines(ls) ==
    IF ls = <<>> THEN <<>>
    ELSE (IF strip(Head(ls), Whitespace) # <<>>
          THEN <<strip(Head(ls), Decoration)>> ELSE <<>>)
         \o stripped_lines(Tail(ls))

\* Lines 40-45.
RECURSIVE collect_bullets(_)
collect_bullets(ls) ==
    IF ls = <<>> THEN <<>>
    ELSE LET words == split_words(Head(ls)) IN
         (IF keep_entry(words) THEN <<join(" ", words)>> ELSE <<>>)
         \o collect_bullets(Tail(ls))

process_core_competencies(t) == collect_bullets(stripped_lines(split(t, "\n")))

MaxCoreText == 5

CoreTexts(n) == seqs_upto({"-", "*", " ", "a", "\n"}, n)

\* The documented example: "- Python\n- Machine Learning Engineering\n- SQL".
ExampleCoreText ==
    <<"-", " ", "Python", "\n", "-", " ", "Machine", " ", "Learning", " ", "Engineering",
      "\n", "-", " ", "SQL">>

InitCore ==
    /\ pc = "process_core"
    /\ doc = <<>>
    /\ doc0 = <<>>
    /\ section_map = NoMap
    /\ indices = <<>>
    /\ word_limit = <<>>
    /\ text \in CoreTexts(MaxCoreText) \cup {ExampleCoreText}
    /\ out = <<>>
    /\ MainIdle

ProcessCore ==
    /\ pc = "process_core"
    /\ out' = process_core_competencies(text)
    /\ pc' = "processed_core"
    /\ UNCHANGED <<doc, doc0, section_map, indices, word_limit, text>>
    /\ UNCHANGED main_vars

NextCore == ProcessCore

SpecCore == InitCore /\ [][NextCore]_vars

\* The k-th smallest element of a set of numbers.
Kth(S, k) == CHOOSE i \in S : Cardinality({j \in S : j < i}) = k - 1

\* Lines whose content has one or two words once the decoration is trimmed
\* from the front only.
KeptLeadingOnly(t) ==
    {i \in 1..Len(split(t, "\n")) :
        Len(split_words(lstrip(split(t, "\n")[i], Decoration))) \in {1, 2}}

\* Lines whose content has one or two words once the decoration is trimmed
\* from both ends.
KeptBothEnds(t) ==
    {i \in 1..Len(split(t, "\n")) :
        Len(split_words(strip(split(t, "\n")[i], Decoration))) \in {1, 2}}

\* C8 as stated: the lines retained are exactly those whose content after
\* trimming the leading decoration is one or two words, and every returned
\* bullet has one or two words.
C8_KeptByLeadingTrim ==
    pc = "processed_core" =>
        /\ Len(out) = Cardinality(KeptLeadingOnly(text))
        /\ \A k \in 1..Len(out) : Len(split_words(out[k])) \in {1, 2}

\* C8 amended: the bullets returned are, in line order, the words (joined by
\* one space) of exactly the lines whose content after trimming the
\* decoration from both ends is one or two words; the documented example
\* yields "Python" and "SQL".
C8_KeptByTrimBothEnds ==
    pc = "processed_core" =>
        /\ Len(out) = Cardinality(KeptBothEnds(text))
        /\ \A k \in 1..Len(out) :
              /\ out[k] = join(" ", split_words(strip(split(text, "\n")[Kth(KeptBothEnds(text), k)],
                                                      Decoration)))
              /\ Len(split_words(out[k])) \in {1, 2}
        /\ text = ExampleCoreText => out = << <<"Python">>, <<"SQL">> >>

\* The documented example was processed: the three-word line was dropped.
C8_Witness ==
    /\ pc = "processed_core"
    /\ text = ExampleCoreText
    /\ Len(out) = 2
    /\ LineCount(text) = 3

(***************************************************************************)
(* update_work_experience, update_core_competencies                        *)
(***************************************************************************)

\* Lines 21-31: the body of the loop for the i-th index.  Setting the style
\* to None gives the paragraph the default style, "Normal".
work_step(d, idx, processed_lines, i) ==
    LET para == para_clear(d[idx + 1]) IN
    IF i < Len(processed_lines)
    THEN [d EXCEPT ![idx + 1] =
            [para_add_run(para, processed_lines[i + 1].text) EXCEPT
                !.style = IF processed_lines[i + 1].is_bullet THEN "List Bullet" ELSE "Normal"]]
    ELSE [d EXCEPT ![idx + 1] = para_set_text(para, <<>>)]

RECURSIVE work_loop(_, _, _, _)
work_loop(d, idxs, processed_lines, i) ==
    IF i >= Len(idxs) THEN d
    ELSE work_loop(work_step(d, idxs[i + 1], processed_lines, i), idxs, processed_lines, i + 1)

update_work_experience(d, idxs, processed_lines) == work_loop(d, idxs, processed_lines, 0)

\* Lines 55-62: the body of the loop for the i-th index.
core_step(d, idx, bullets, i) ==
    LET para == para_clear(d[idx + 1]) IN
    IF i < Len(bullets)
    THEN [d EXCEPT ![idx + 1] =
            [para EXCEPT !.runs = <<[text |-> <<"u2022", " ">> \o bullets[i + 1], bold |-> TRUE]>>]]
    ELSE [d EXCEPT ![idx + 1] = para_set_text(para, <<>>)]

RECURSIVE core_loop(_, _, _, _)
core_loop(d, idxs, bullets, i) ==
    IF i >= Len(idxs) THEN d
    ELSE core_loop(core_step(d, idxs[i + 1], bullets, i), idxs, bullets, i + 1)

update_core_competencies(d, idxs, bullets) == core_loop(d, idxs, bullets, 0)

(***************************************************************************)
(* main                                                                    *)
(***************************************************************************)

\* Line 294.
intro_word_limit == 70
skills_word_limit == 60
work_word_limit == 250

\* Lines 297-302: the text of each editable section, '' for a missing one.
editable_section(d, idxs, limit) ==
    IF idxs # <<>> THEN extract_section_text(d, idxs, <<limit>>) ELSE <<>>

\* The symbols the pattern of line 318 matches: the three labels, in any case.
SectionLabels ==
    {"INTRO PARAGRAPH:", "SKILLS SECTION:", "WORK EXPERIENCE SECTION:",
     "intro paragraph:", "skills section:", "work experience section:"}

\* split_sections, but the fallback text goes to the intro.
split_sections_fallback_to_intro(t) ==
    LET m == split_any(t, SectionLabels) IN
    IF Len(m) >= 4
    THEN [intro |-> strip(m[2], Whitespace), skills |-> strip(m[3], Whitespace),
          work |-> strip(m[4], Whitespace)]
    ELSE [intro |-> strip(t, Whitespace), skills |-> <<>>, work |-> <<>>]

\* Lines 317-324: intro_new, skills_new, work_new from the response.
split_sections(t) ==
    LET m == split_any(t, SectionLabels) IN
    IF Len(m) >= 4
    THEN [intro |-> strip(m[2], Whitespace), skills |-> strip(m[3], Whitespace),
          work |-> strip(m[4], Whitespace)]
    ELSE [intro |-> <<>>, skills |-> <<>>, work |-> strip(t, Whitespace)]

MaxResponse == 4

Responses(n) ==
    seqs_upto({"INTRO PARAGRAPH:", "SKILLS SECTION:", "work experience section:", "a", "\n"}, n)

\* Resumes: the template layout, one without headers, one with only the work
\* header, one with a job title that holds the intro marker.
MainDocs ==
    { << mk_para(<< <<"DATA SCIENTIST">> >>), mk_para(<< <<"a", "b">>, <<"a">> >>),
         mk_para(<< <<"CORE COMPETENCIES">> >>), mk_para(<< <<"a">> >>), mk_para(<< <<"b">> >>),
         mk_para(<< <<"WORK EXPERIENCE">> >>), mk_para(<< <<"-", " ", "a">> >>),
         mk_para(<< <<"b">> >>), mk_para(<< <<"E", "D", "U", "C">> >>), mk_para(<< <<"x">> >>) >>,
      << mk_para(<< <<"x">> >>), mk_para(<< <<"a", "b">> >>) >>,
      << mk_para(<< <<"WORK EXPERIENCE">> >>), mk_para(<< <<"a">>, <<"b">> >>) >>,
      << mk_para(<< <<"WORK EXPERIENCE">> >>), mk_para(<< <<"data scientist", " ", "x">> >>),
         mk_para(<< <<"a">> >>) >> }

Init ==
    /\ pc = "parse"
    /\ doc \in MainDocs
    /\ doc0 = doc
    /\ section_map = NoMap
    /\ indices = <<>>
    /\ word_limit = <<>>
    /\ text = <<>>
    /\ out = <<>>
    /\ MainIdle

\* Line 292.
MainParse ==
    /\ pc = "parse"
    /\ section_map' = parse_docx_sections(doc)
    /\ pc' = "extract"
    /\ UNCHANGED <<doc, doc0, indices, word_limit, text, out>>
    /\ UNCHANGED main_vars

\* Lines 294-309: the editable sections, as sent in the prompt.
MainExtract ==
    /\ pc = "extract"
    /\ out' = [intro |-> editable_section(doc, section_map.intro, intro_word_limit),
               skills |-> editable_section(doc, section_map.skills, skills_word_limit),
               work_experience |->
                   editable_section(doc, section_map.work_experience, work_word_limit)]
    /\ pc' = "call"
    /\ UNCHANGED <<doc, doc0, section_map, indices, word_limit, text>>
    /\ UNCHANGED main_vars

\* Lines 312, 219-223: the request is posted and the service answers.
CallGeminiOk ==
    /\ pc = "call"
    /\ calls' = calls + 1
    /\ new_resume_text' \in Responses(MaxResponse)
    /\ pc' = "split"
    /\ UNCHANGED <<doc, doc0, section_map, indices, word_limit, text, out>>
    /\ UNCHANGED <<new_sections, saved, call_failed>>

\* CallGeminiFails, but the error is swallowed and main goes on with ''.
CallGeminiFailsSwallowed ==
    /\ pc = "call"
    /\ calls' = calls + 1
    /\ call_failed' = TRUE
    /\ new_resume_text' = <<>>
    /\ pc' = "split"
    /\ UNCHANGED <<doc, doc0, section_map, indices, word_limit, text, out>>
    /\ UNCHANGED <<new_sections, saved>>

\* Lines 224-237: an HTTP error status or a response without the
\* candidate text is printed and raised again; main does not catch it.
CallGeminiFails ==
    /\ pc = "call"
    /\ calls' = calls + 1
    /\ call_failed' = TRUE
    /\ pc' = "aborted"
    /\ UNCHANGED <<doc, doc0, section_map, indices, word_limit, text, out>>
    /\ UNCHANGED <<new_resume_text, new_sections, saved>>

\* Lines 316-324.
SplitResponse ==
    /\ pc = "split"
    /\ new_sections' = split_sections(new_resume_text)
    /\ pc' = "update_intro"
    /\ UNCHANGED <<doc, doc0, section_map, indices, word_limit, text, out>>
    /\ UNCHANGED <<new_resume_text, saved, calls, call_failed>>

\* Lines 327-328.
UpdateIntro ==
    /\ pc = "update_intro"
    /\ doc' = IF section_map.intro # <<>>
              THEN update_section_text(doc, section_map.intro, new_sections.intro)
              ELSE doc
    /\ pc' = "update_skills"
    /\ UNCHANGED <<doc0, section_map, indices, word_limit, text, out>>
    /\ UNCHANGED main_vars

\* Lines 329-331.
UpdateSkills ==
    /\ pc = "update_skills"
    /\ doc' = IF section_map.skills # <<>>
              THEN update_core_competencies(doc, section_map.skills,
                                            process_core_competencies(new_sections.skills))
              ELSE doc
    /\ pc' = "update_work"
    /\ UNCHANGED <<doc0, section_map, indices, word_limit, text, out>>
    /\ UNCHANGED main_vars

\* Lines 332-334.
UpdateWork ==
    /\ pc = "update_work"
    /\ doc' = IF section_map.work_experience # <<>>
              THEN update_work_experience(doc, section_map.work_experience,
                                          process_work_experience(new_sections.work))
              ELSE doc
    /\ pc' = "save"
    /\ UNCHANGED <<doc0, section_map, indices, word_limit, text, out>>
    /\ UNCHANGED main_vars

\* Lines 336-338: the updated document is written to <resume>_updated.docx.
SaveDocx ==
    /\ pc = "save"
    /\ saved' = [saved EXCEPT !.docx = <<doc>>]
    /\ pc' = "convert"
    /\ UNCHANGED <<doc, doc0, section_map, indices, word_limit, text, out>>
    /\ UNCHANGED <<new_resume_text, new_sections, calls, call_failed>>

\* Lines 340-343: the saved file is converted to <resume>.pdf.
ConvertPdf ==
    /\ pc = "convert"
    /\ saved' = [saved EXCEPT !.pdf = saved.docx]
    /\ pc' = "done"
    /\ UNCHANGED <<doc, doc0, section_map, indices, word_limit, text, out>>
    /\ UNCHANGED <<new_resume_text, new_sections, calls, call_failed>>

Next ==
    \/ MainParse
    \/ MainExtract
    \/ CallGeminiOk
    \/ CallGeminiFails
    \/ SplitResponse
    \/ UpdateIntro
    \/ UpdateSkills
    \/ UpdateWork
    \/ SaveDocx
    \/ ConvertPdf

Spec == Init /\ [][Next]_vars

(***************************************************************************)
(* Properties of main                                                      *)
(***************************************************************************)

\* C5: when call_gemini fails the run is aborted there: no paragraph has been
\* changed, neither the updated document nor the PDF is written, and the
\* call was made once.
C5_FailedCallAbortsUntouched ==
    call_failed =>
        /\ pc = "aborted"
        /\ doc = doc0
        /\ saved = NoFiles
        /\ calls = 1
        /\ ~ENABLED Next

\* The call failed on a resume whose three sections were all found.
C5_Witness ==
    /\ call_failed
    /\ section_map.intro # <<>> /\ section_map.skills # <<>>
    /\ section_map.work_experience # <<>>

\* Number of pieces the response splits into: one more than its labels.
Pieces(t) == Cardinality({k \in 1..Len(t) : t[k] \in SectionLabels}) + 1

AfterSplit == pc \in {"update_intro", "update_skills", "update_work", "save", "convert", "done"}

\* C6: a response that splits into fewer than four pieces goes whole
\* (trimmed) to the work-experience text, the intro and skills texts stay
\* empty, and the run is not aborted: it goes through the splicing and ends
\* with the spliced document saved and converted.
C6_FallbackToWorkExperience ==
    AfterSplit /\ Pieces(new_resume_text) < 4 =>
        /\ new_sections.work = strip(new_resume_text, Whitespace)
        /\ new_sections.intro = <<>>
        /\ new_sections.skills = <<>>
        /\ ~call_failed
        /\ pc \in {"update_intro", "update_skills", "update_work", "save"} => saved = NoFiles
        /\ pc = "done" => saved.docx = <<doc>> /\ saved.pdf = <<doc>>

\* A response with labels, but too few, was routed to the work section,
\* spliced into the document and saved.
C6_Witness ==
    /\ pc = "done"
    /\ Pieces(new_resume_text) \in {2, 3}
    /\ new_sections.work # <<>>
    /\ doc # doc0
    /\ saved.docx = <<doc>>

(***************************************************************************)
(* Properties of parse_docx_sections                                       *)
(***************************************************************************)

\* The text the parser compares with the headers: trimmed, upper-cased.
header_text(d, i) == upper(strip(para_text(d[i + 1]), Whitespace))

IntroMarkers(d) == {i \in 0..(Len(d) - 1) : has_intro_header(header_text(d, i))}
SkillsMarkers(d) == {i \in 0..(Len(d) - 1) : header_text(d, i) = skills_header}
WorkMarkers(d) == {i \in 0..(Len(d) - 1) : header_text(d, i) = work_header}

AllCaps(d, i) ==
    LET t == strip(para_text(d[i + 1]), Whitespace) IN isupper(t) /\ str_len(t) > 3

SetMax(S) == CHOOSE x \in S : \A y \in S : y <= x
SetMin(S) == CHOOSE x \in S : \A y \in S : x <= y

Disjoint(xs, ys) == elems(xs) \cap elems(ys) = {}

NamedDisjoint(m) ==
    /\ Disjoint(m.intro, m.skills)
    /\ Disjoint(m.intro, m.work_experience)
    /\ Disjoint(m.skills, m.work_experience)

OtherIsComplement(m, n) ==
    /\ elems(m.other) = (0..(n - 1)) \ (elems(m.intro) \cup elems(m.skills) \cup elems(m.work_experience))
    /\ Cardinality(elems(m.other)) = Len(m.other)

\* C1: for every document, the intro, skills and work_experience index lists
\* of the returned map are pairwise disjoint and other is exactly the set of
\* paragraph indices in none of the three.
C1_DisjointForEveryDocument ==
    pc = "parsed" =>
        NamedDisjoint(section_map) /\ OtherIsComplement(section_map, Len(doc))

\* The header paragraphs the parser settles on (the last match of each) are
\* all present and in the order intro, skills, work.
CanonicalOrder(d) ==
    /\ IntroMarkers(d) # {} /\ SkillsMarkers(d) # {} /\ WorkMarkers(d) # {}
    /\ SetMax(IntroMarkers(d)) < SetMax(SkillsMarkers(d))
    /\ SetMax(SkillsMarkers(d)) < SetMax(WorkMarkers(d))

C9_WorkSectionRange ==
    pc = "parsed" =>
        IF WorkMarkers(doc) = {} THEN section_map.work_experience = <<>>
        ELSE LET ws == SetMax(WorkMarkers(doc))
                 B == {i \in (ws + 1)..(Len(doc) - 1) : AllCaps(doc, i)}
                 b == IF B = {} THEN Len(doc) ELSE SetMin(B)
             IN section_map.work_experience = [k \in 1..(b - ws - 1) |-> ws + k]

\* A work section of at least two paragraphs, one of them a short all-caps
\* line, ended by an all-caps header.
C9_Witness ==
    /\ pc = "parsed" /\ WorkMarkers(doc) # {}
    /\ Len(section_map.work_experience) >= 2
    /\ \E k \in 1..Len(section_map.work_experience) :
          isupper(para_text(doc[section_map.work_experience[k] + 1]))
    /\ section_map.work_experience[Len(section_map.work_experience)] + 1 < Len(doc)

====
